---- MODULE Spec2Model ----
(***************************************************************************)
(* Model of the notebook                                                   *)
(*   Synapse_Materialize_Query_CETAS_And_Generate_Stats.ipynb             *)
(* refresh_external_table drops the external table when table_exists      *)
(* says so, deletes the configured ADLS folder, runs the CETAS statement   *)
(* and, after a successful CETAS, create_statistics_for_external_table     *)
(* plans and executes one CREATE STATISTICS command per row of its         *)
(* catalog query.                                                          *)
(*                                                                         *)
(* The Synapse catalog, the statistics objects and the ADLS folders are    *)
(* the durable state; the locals of the two functions, the exception in    *)
(* flight and the printed messages are the program state.  Every external  *)
(* call (JDBC, mssparkutils.fs.rm) either returns or raises.  close() on   *)
(* a statement or a connection is taken to return.                         *)
(***************************************************************************)
EXTENDS Integers, Sequences, FiniteSets, TLC

\* ------------------------------------------------------------------ bounds
\* columns of every external table (the width of the CETAS query result)
NumCols == 2
\* executions of the last notebook cell, refresh_external_table(CONFIG)
MaxRuns == 2

\* ---------------------------------------------------------------- universe
DefaultSchema == "dbo"
\* the external tables the catalog may hold, as <<schema, name>>, in the
\* order the catalog enumerates them
TableOrder == << <<"dbo", "T">>, <<"sales", "T">> >>
Tables == {TableOrder[k] : k \in 1..Len(TableOrder)}
\* values of config["external_table"]: the parts between the dots; no table
\* named U is ever in the catalog
TableNames == { <<"T">>, <<"sales", "T">>, <<"U">> }
\* the table name the CETAS text was formatted with
CetasNames == { <<"T">>, <<"sales", "T">> }
Paths == {"p1", "p2"}
Columns == 1..NumCols
\* statistics objects on a column: the one named Stats_<column>, and any
\* other one (automatically created, or created by hand)
StatKinds == {"Stats_col", "other"}
\* what a folder may hold: files left by an earlier writer, CETAS output
Stale == "stale"
Output == "cetas_output"

None == "None"

VARIABLES
    catalog,        \* sys.external_tables: the set of <<schema, name>>
    stats,          \* statistics objects: [tbl, col, kind]
    storage,        \* ADLS: folder -> set of contents
    config,         \* the config argument of refresh_external_table
    cetas,          \* cetas_sql: the table and the LOCATION in its text
    pc,             \* position in refresh / create_statistics
    conn, stmt,     \* locals of refresh_external_table
    table_created,  \* local of refresh_external_table
    existsResult,   \* what table_exists returned (FALSE before the call)
    existsMatches,  \* rows of the table_exists query when it ran
    sconn, sstmt,   \* locals of create_statistics_for_external_table
    commands,       \* local of create_statistics_for_external_table
    executed,       \* the commands stmt.execute(cmd) was called with
    pending,        \* the exception in flight, NoError if none
    raised,         \* the exception the caller of refresh got
    log,            \* the messages printed in this run
    trace,          \* the external calls of this run, in order
    run,            \* how many times the last cell has been executed
    clean,          \* no call of this run raised
    snap            \* the durable state when this run started, and whether
                    \* the run before it ended without any call raising

env == <<catalog, stats, storage>>
inputs == <<config, cetas>>
locals == <<conn, stmt, table_created, existsResult, existsMatches,
            sconn, sstmt, commands, executed>>
vars == <<catalog, stats, storage, config, cetas, pc, conn, stmt,
          table_created, existsResult, existsMatches, sconn, sstmt, commands,
          executed, pending, raised, log, trace, run, clean, snap>>

\* ----------------------------------------------------------- pure helpers
Last(s) == s[Len(s)]

\* the engine's name resolution: a one-part name is in the default schema
Resolve(name) == IF Len(name) = 1 THEN <<DefaultSchema, name[1]>> ELSE name

\* table_name.split('.')[-1]
Unqualified(name) == Last(name)

\* SELECT 1 FROM sys.external_tables WHERE name = '<unqualified>'
ExistsRows(cat, table_name) == {t \in cat : t[2] = Unqualified(table_name)}

\* mutant: "return not rs.next()"
table_exists_negated(cat, table_name) == ExistsRows(cat, table_name) = {}

\* mutant: true only for a single row
table_exists_single(cat, table_name) ==
    Cardinality(ExistsRows(cat, table_name)) = 1

\* return rs.next(): whether the result set has a first row
table_exists(cat, table_name) == ExistsRows(cat, table_name) # {}

Event(op, ok, on, arg) == [op |-> op, ok |-> ok, on |-> on, arg |-> arg]
Error(kind, at) == [kind |-> kind, at |-> at]
\* no exception
NoError == Error(None, None)


\* ------------------------------------------------------------ engine rules
\* the statistics objects a DROP EXTERNAL TABLE takes with the table
StatsOf(st, t) == {s \in st : s.tbl = t}

\* DROP EXTERNAL TABLE <name> is rejected when the name resolves to nothing
DropAccepted(cat, name) == Resolve(name) \in cat

\* CREATE EXTERNAL TABLE ... AS SELECT is rejected when the table is already
\* there or when its LOCATION holds files
CetasAccepted(cat, sto, c) ==
    /\ Resolve(c.table) \notin cat
    /\ sto[c.location] = {}

\* ---------------------------------------------------------------- initial
\* statistics objects that may be present before the first run: on the first
\* column of tables that exist
InitStats(cat) == {[tbl |-> t, col |-> 1, kind |-> k] : t \in cat, k \in StatKinds}

Init ==
    /\ catalog \in SUBSET Tables
    /\ stats \in SUBSET InitStats(catalog)
    /\ storage \in [Paths -> {{}, {Stale}}]
    /\ config \in [external_table : TableNames,
                   materialized_table_output_path : Paths]
    /\ cetas \in [table : CetasNames, location : Paths]
    /\ pc = "idle"
    /\ conn = None /\ stmt = None /\ table_created = FALSE
    /\ existsResult = FALSE /\ existsMatches = 0
    /\ sconn = None /\ sstmt = None
    /\ commands = <<>> /\ executed = <<>>
    /\ pending = NoError /\ raised = NoError
    /\ log = {} /\ trace = <<>>
    /\ run = 0 /\ clean = TRUE
    /\ snap = [env |-> env, ok |-> FALSE]

\* --------------------------------------------------- refresh_external_table
\* the last cell: refresh_external_table(CONFIG), up to "try:"
Execute ==
    /\ pc \in {"idle", "done", "failed"}
    /\ run < MaxRuns
    /\ run' = run + 1
    /\ snap' = [env |-> env, ok |-> (pc = "done" /\ clean)]
    /\ conn' = None /\ stmt' = None /\ table_created' = FALSE
    /\ existsResult' = FALSE /\ existsMatches' = 0
    /\ sconn' = None /\ sstmt' = None
    /\ commands' = <<>> /\ executed' = <<>>
    /\ pending' = NoError /\ raised' = NoError
    /\ log' = {} /\ trace' = <<>>
    /\ clean' = TRUE
    /\ pc' = "connect"
    /\ UNCHANGED <<env, inputs>>

\* a call of the try block raises: control goes to the except clause
RaiseInRefresh(kind, at, arg) ==
    /\ pending' = Error(kind, at)
    /\ trace' = Append(trace, Event(at, FALSE, 1, arg))
    /\ clean' = FALSE
    /\ pc' = "handler"

\* conn = get_jdbc_connection(config)
Connect ==
    /\ pc = "connect"
    /\ \/ /\ conn' = "open"
          /\ trace' = Append(trace, Event("connect", TRUE, 1, None))
          /\ pc' = "createStatement"
          /\ UNCHANGED <<pending, clean>>
       \/ /\ RaiseInRefresh("ConnectionError", "connect", None)
          /\ UNCHANGED conn
    /\ UNCHANGED <<env, inputs, stmt, table_created, existsResult,
                   existsMatches, sconn, sstmt, commands, executed, raised,
                   log, run, snap>>

\* stmt = conn.createStatement()
CreateStatement ==
    /\ pc = "createStatement"
    /\ \/ /\ stmt' = "open"
          /\ trace' = Append(trace, Event("createStatement", TRUE, 1, None))
          /\ pc' = "check"
          /\ UNCHANGED <<pending, clean>>
       \/ /\ RaiseInRefresh("QueryError", "createStatement", None)
          /\ UNCHANGED stmt
    /\ UNCHANGED <<env, inputs, conn, table_created, existsResult,
                   existsMatches, sconn, sstmt, commands, executed, raised,
                   log, run, snap>>

\* table_exists(stmt, config["external_table"])
CheckExists ==
    /\ pc = "check"
    /\ \/ /\ existsResult' = table_exists(catalog, config.external_table)
          /\ existsMatches' =
                Cardinality(ExistsRows(catalog, config.external_table))
          /\ trace' = Append(trace,
                Event("exists", TRUE, 1, Unqualified(config.external_table)))
          /\ pc' = "branch"
          /\ UNCHANGED <<pending, clean>>
       \/ /\ RaiseInRefresh("QueryError", "exists",
                            Unqualified(config.external_table))
          /\ UNCHANGED <<existsResult, existsMatches>>
    /\ UNCHANGED <<env, inputs, conn, stmt, table_created, sconn, sstmt,
                   commands, executed, raised, log, run, snap>>

\* mutant: DROP EXTERNAL TABLE IF EXISTS: dropping an absent table succeeds
DropTable_ifexists ==
    /\ pc = "branch"
    /\ existsResult = TRUE
    /\ \/ /\ catalog' = catalog \ {Resolve(config.external_table)}
          /\ stats' = stats \ StatsOf(stats, Resolve(config.external_table))
          /\ trace' = Append(trace,
                Event("drop", TRUE, 1, config.external_table))
          /\ log' = log \cup {"dropped"}
          /\ pc' = "cleanup"
          /\ UNCHANGED <<pending, clean>>
       \/ /\ RaiseInRefresh("QueryError", "drop", config.external_table)
          /\ UNCHANGED <<catalog, stats, log>>
    /\ UNCHANGED <<storage, inputs, conn, stmt, table_created, existsResult,
                   existsMatches, sconn, sstmt, commands, executed, raised,
                   run, snap>>

\* the true branch: drop_external_table(stmt, config["external_table"])
DropTable ==
    /\ pc = "branch"
    /\ existsResult = TRUE
    /\ \/ /\ DropAccepted(catalog, config.external_table)
          /\ catalog' = catalog \ {Resolve(config.external_table)}
          /\ stats' = stats \ StatsOf(stats, Resolve(config.external_table))
          /\ trace' = Append(trace,
                Event("drop", TRUE, 1, config.external_table))
          /\ log' = log \cup {"dropped"}
          /\ pc' = "cleanup"
          /\ UNCHANGED <<pending, clean>>
       \/ /\ RaiseInRefresh("QueryError", "drop", config.external_table)
          /\ UNCHANGED <<catalog, stats, log>>
    /\ UNCHANGED <<storage, inputs, conn, stmt, table_created, existsResult,
                   existsMatches, sconn, sstmt, commands, executed, raised,
                   run, snap>>

\* mutant: the cleanup sits in the branch that drops the table
SkipDrop_nocleanup ==
    /\ pc = "branch"
    /\ existsResult = FALSE
    /\ log' = log \cup {"skip_drop"}
    /\ pc' = "create"
    /\ UNCHANGED <<env, inputs, locals, pending, raised, trace, run, clean,
                   snap>>

\* the else branch: print "does not exist. Skipping DROP."
SkipDrop ==
    /\ pc = "branch"
    /\ existsResult = FALSE
    /\ log' = log \cup {"skip_drop"}
    /\ pc' = "cleanup"
    /\ UNCHANGED <<env, inputs, locals, pending, raised, trace, run, clean,
                   snap>>

\* delete_adls_path(config["materialized_table_output_path"])
DeletePath ==
    /\ pc = "cleanup"
    /\ LET path == config.materialized_table_output_path IN
       \/ /\ storage' = [storage EXCEPT ![path] = {}]
          /\ trace' = Append(trace, Event("rm", TRUE, 1, path))
          /\ log' = log \cup {IF storage[path] # {} THEN "deleted_path"
                                                    ELSE "path_not_found"}
          /\ pc' = "create"
          /\ UNCHANGED <<pending, clean>>
       \/ /\ RaiseInRefresh("StorageError", "rm", path)
          /\ UNCHANGED <<storage, log>>
    /\ UNCHANGED <<catalog, stats, inputs, locals, raised, run, snap>>

\* mutant: create_statistics is called inside the try block, right after the
\* create, while the connection of refresh is still open
CreateTable_statsInTry ==
    /\ pc = "create"
    /\ \/ /\ CetasAccepted(catalog, storage, cetas)
          /\ catalog' = catalog \cup {Resolve(cetas.table)}
          /\ storage' = [storage EXCEPT ![cetas.location] = {Output}]
          /\ trace' = Append(trace, Event("create", TRUE, 1, cetas.table))
          /\ log' = log \cup {"created"}
          /\ table_created' = TRUE
          /\ pc' = "s_connect"
          /\ UNCHANGED <<pending, clean>>
       \/ /\ RaiseInRefresh("QueryError", "create", cetas.table)
          /\ UNCHANGED <<catalog, storage, log, table_created>>
    /\ UNCHANGED <<stats, inputs, conn, stmt, existsResult, existsMatches,
                   sconn, sstmt, commands, executed, raised, run, snap>>

\* create_external_table(stmt, config); table_created = True
CreateTable ==
    /\ pc = "create"
    /\ \/ /\ CetasAccepted(catalog, storage, cetas)
          /\ catalog' = catalog \cup {Resolve(cetas.table)}
          /\ storage' = [storage EXCEPT ![cetas.location] = {Output}]
          /\ trace' = Append(trace, Event("create", TRUE, 1, cetas.table))
          /\ log' = log \cup {"created"}
          /\ table_created' = TRUE
          /\ pc' = "finally"
          /\ UNCHANGED <<pending, clean>>
       \/ /\ RaiseInRefresh("QueryError", "create", cetas.table)
          /\ UNCHANGED <<catalog, storage, log, table_created>>
    /\ UNCHANGED <<stats, inputs, conn, stmt, existsResult, existsMatches,
                   sconn, sstmt, commands, executed, raised, run, snap>>

\* mutant: the except clause raises a new error in place of the caught one
RefreshHandler_wrap ==
    /\ pc = "handler"
    /\ log' = log \cup {"error_refresh"}
    /\ pending' = Error("RuntimeError", "handler")
    /\ pc' = "finally"
    /\ UNCHANGED <<env, inputs, locals, raised, trace, run, clean, snap>>

\* mutant: the except clause puts the catalog back as it was at the start
RefreshHandler_restore ==
    /\ pc = "handler"
    /\ log' = log \cup {"error_refresh"}
    /\ catalog' = snap.env[1]
    /\ stats' = snap.env[2]
    /\ pc' = "finally"
    /\ UNCHANGED <<storage, inputs, locals, pending, raised, trace, run,
                   clean, snap>>

\* except Exception as e: print(...); raise
RefreshHandler ==
    /\ pc = "handler"
    /\ log' = log \cup {"error_refresh"}
    /\ pc' = "finally"
    /\ UNCHANGED <<env, inputs, locals, pending, raised, trace, run, clean,
                   snap>>

\* the close() calls of a finally block, on connection `on`
Closes(s, c, on) ==
    (IF s # None THEN <<Event("stmt.close", TRUE, on, None)>> ELSE <<>>)
    \o (IF c # None THEN <<Event("conn.close", TRUE, on, None)>> ELSE <<>>)

\* mutant: the except clause has no "raise": the exception ends in refresh
RefreshFinally_swallow ==
    /\ pc = "finally"
    /\ stmt' = IF stmt # None THEN "closed" ELSE stmt
    /\ conn' = IF conn # None THEN "closed" ELSE conn
    /\ trace' = trace \o Closes(stmt, conn, 1)
    /\ log' = log \cup {"refresh_completed"}
    /\ pending' = NoError
    /\ pc' = "after"
    /\ UNCHANGED <<env, inputs, table_created, existsResult, existsMatches,
                   sconn, sstmt, commands, executed, raised, run, clean, snap>>

\* mutant: the close() calls end the try block instead of sitting in finally
RefreshFinally_leak ==
    /\ pc = "finally"
    /\ stmt' = IF stmt # None /\ pending = NoError THEN "closed" ELSE stmt
    /\ conn' = IF conn # None /\ pending = NoError THEN "closed" ELSE conn
    /\ trace' = IF pending = NoError THEN trace \o Closes(stmt, conn, 1)
                                     ELSE trace
    /\ log' = log \cup {"refresh_completed"}
    /\ IF pending # NoError
       THEN raised' = pending /\ pending' = NoError /\ pc' = "failed"
       ELSE UNCHANGED <<raised, pending>> /\ pc' = "after"
    /\ UNCHANGED <<env, inputs, table_created, existsResult, existsMatches,
                   sconn, sstmt, commands, executed, run, clean, snap>>

\* finally: close stmt and conn; then the pending exception leaves refresh
RefreshFinally ==
    /\ pc = "finally"
    /\ stmt' = IF stmt # None THEN "closed" ELSE stmt
    /\ conn' = IF conn # None THEN "closed" ELSE conn
    /\ trace' = trace \o Closes(stmt, conn, 1)
    /\ log' = log \cup {"refresh_completed"}
    /\ IF pending # NoError
       THEN raised' = pending /\ pending' = NoError /\ pc' = "failed"
       ELSE UNCHANGED <<raised, pending>> /\ pc' = "after"
    /\ UNCHANGED <<env, inputs, table_created, existsResult, existsMatches,
                   sconn, sstmt, commands, executed, run, clean, snap>>

\* Step 4: if table_created: create_statistics(...) else: print the skip
AfterRefresh ==
    /\ pc = "after"
    /\ IF table_created
       THEN /\ pc' = "s_connect"
            /\ UNCHANGED log
       ELSE /\ log' = log \cup {"skip_stats"}
            /\ pc' = "done"
    /\ UNCHANGED <<env, inputs, locals, pending, raised, trace, run, clean,
                   snap>>

\* ------------------------------------- create_statistics_for_external_table
\* 'CREATE STATISTICS [Stats_<c>] ON [<schema>].[<table>] ([<c>]) WITH FULLSCAN;'
Command(t, c) == [tbl |-> t, col |-> c]

Repeat(x, n) == [k \in 1..n |-> x]

\* mutant: INNER JOIN sys.stats_columns: no row for a column without statistics
RowsForColumn_innerjoin(st, t, c) ==
    Repeat(Command(t, c), Cardinality({s \in st : s.tbl = t /\ s.col = c}))

\* sys.columns LEFT JOIN sys.stats_columns LEFT JOIN sys.stats: one row for
\* each statistics object on the column, one row when there is none
RowsForColumn(st, t, c) ==
    LET n == Cardinality({s \in st : s.tbl = t /\ s.col = c})
    IN  Repeat(Command(t, c), IF n = 0 THEN 1 ELSE n)

RECURSIVE RowsForTable(_, _, _)
RowsForTable(st, t, c) ==
    IF c > NumCols THEN <<>>
    ELSE RowsForColumn(st, t, c) \o RowsForTable(st, t, c + 1)

\* FROM sys.objects AS o ... WHERE o.name = '<table_name>'
RECURSIVE RowsFrom(_, _, _, _)
RowsFrom(cat, st, table_name, k) ==
    IF k > Len(TableOrder) THEN <<>>
    ELSE (IF TableOrder[k] \in cat /\ TableOrder[k][2] = table_name
          THEN RowsForTable(st, TableOrder[k], 1) ELSE <<>>)
         \o RowsFrom(cat, st, table_name, k + 1)

\* the rows of stats_sql, in the order rs.next() yields them
stats_sql(cat, st, table_name) == RowsFrom(cat, st, table_name, 1)

\* CREATE STATISTICS is rejected when the table is gone or when it already
\* has a statistics object of that name
StatAccepted(cat, st, cmd) ==
    /\ cmd.tbl \in cat
    /\ [tbl |-> cmd.tbl, col |-> cmd.col, kind |-> "Stats_col"] \notin st

\* a call of the outer try block of create_statistics raises
RaiseInStats(kind, at, arg) ==
    /\ pending' = Error(kind, at)
    /\ trace' = Append(trace, Event(at, FALSE, 2, arg))
    /\ clean' = FALSE
    /\ pc' = "s_handler"

\* conn = get_jdbc_connection(config)
StatsConnect ==
    /\ pc = "s_connect"
    /\ \/ /\ sconn' = "open"
          /\ trace' = Append(trace, Event("connect", TRUE, 2, None))
          /\ pc' = "s_createStatement"
          /\ UNCHANGED <<pending, clean>>
       \/ /\ RaiseInStats("ConnectionError", "connect", None)
          /\ UNCHANGED sconn
    /\ UNCHANGED <<env, inputs, conn, stmt, table_created, existsResult,
                   existsMatches, sstmt, commands, executed, raised, log,
                   run, snap>>

\* stmt = conn.createStatement()
StatsCreateStatement ==
    /\ pc = "s_createStatement"
    /\ \/ /\ sstmt' = "open"
          /\ trace' = Append(trace, Event("createStatement", TRUE, 2, None))
          /\ pc' = "s_plan"
          /\ UNCHANGED <<pending, clean>>
       \/ /\ RaiseInStats("QueryError", "createStatement", None)
          /\ UNCHANGED sstmt
    /\ UNCHANGED <<env, inputs, conn, stmt, table_created, existsResult,
                   existsMatches, sconn, commands, executed, raised, log,
                   run, snap>>

\* mutant: no "if not commands: ... return": the loop header is printed
StatsPlan_noguard ==
    /\ pc = "s_plan"
    /\ LET table_name == Unqualified(config.external_table)
           rows == stats_sql(catalog, stats, table_name)
       IN
       \/ /\ commands' = rows
          /\ trace' = Append(trace, Event("stats_query", TRUE, 2, table_name))
          /\ log' = log \cup {"creating_stats"}
          /\ pc' = IF rows = <<>> THEN "s_finally" ELSE "s_loop"
          /\ UNCHANGED <<pending, clean>>
       \/ /\ RaiseInStats("QueryError", "stats_query", table_name)
          /\ UNCHANGED <<commands, log>>
    /\ UNCHANGED <<env, inputs, conn, stmt, table_created, existsResult,
                   existsMatches, sconn, sstmt, executed, raised, run, snap>>

\* Step 1: rs = stmt.executeQuery(stats_sql); collect; return when empty
StatsPlan ==
    /\ pc = "s_plan"
    /\ LET table_name == Unqualified(config.external_table)
           rows == stats_sql(catalog, stats, table_name)
       IN
       \/ /\ commands' = rows
          /\ trace' = Append(trace, Event("stats_query", TRUE, 2, table_name))
          /\ IF rows = <<>>
             THEN log' = log \cup {"no_stats"} /\ pc' = "s_finally"
             ELSE log' = log \cup {"creating_stats"} /\ pc' = "s_loop"
          /\ UNCHANGED <<pending, clean>>
       \/ /\ RaiseInStats("QueryError", "stats_query", table_name)
          /\ UNCHANGED <<commands, log>>
    /\ UNCHANGED <<env, inputs, conn, stmt, table_created, existsResult,
                   existsMatches, sconn, sstmt, executed, raised, run, snap>>

\* mutant: no inner try: a rejected command ends the loop and propagates
StatsExecute_failfast ==
    /\ pc = "s_loop"
    /\ Len(executed) < Len(commands)
    /\ LET cmd == commands[Len(executed) + 1] IN
       /\ executed' = Append(executed, cmd)
       /\ \/ /\ StatAccepted(catalog, stats, cmd)
             /\ stats' = stats \cup
                   {[tbl |-> cmd.tbl, col |-> cmd.col, kind |-> "Stats_col"]}
             /\ trace' = Append(trace, Event("stat_cmd", TRUE, 2, cmd))
             /\ log' = log \cup {"executed"}
             /\ pc' = IF Len(executed') = Len(commands) THEN "s_finally"
                                                        ELSE "s_loop"
             /\ UNCHANGED <<clean, pending>>
          \/ /\ RaiseInStats("QueryError", "stat_cmd", cmd)
             /\ UNCHANGED <<stats, log>>
    /\ UNCHANGED <<catalog, storage, inputs, conn, stmt, table_created,
                   existsResult, existsMatches, sconn, sstmt, commands,
                   raised, run, snap>>

\* mutant: a rejected command is tried again until it is accepted
StatsExecute_retry ==
    /\ pc = "s_loop"
    /\ Len(executed) < Len(commands)
    /\ LET cmd == commands[Len(executed) + 1] IN
       \/ /\ StatAccepted(catalog, stats, cmd)
          /\ executed' = Append(executed, cmd)
          /\ stats' = stats \cup
                {[tbl |-> cmd.tbl, col |-> cmd.col, kind |-> "Stats_col"]}
          /\ trace' = Append(trace, Event("stat_cmd", TRUE, 2, cmd))
          /\ log' = log \cup {"executed"}
          /\ pc' = IF Len(executed') = Len(commands) THEN "s_finally"
                                                     ELSE "s_loop"
          /\ UNCHANGED clean
       \/ /\ log' = log \cup {"failed_cmd"}
          /\ clean' = FALSE
          /\ UNCHANGED <<stats, executed, trace, pc>>
    /\ UNCHANGED <<catalog, storage, inputs, conn, stmt, table_created,
                   existsResult, existsMatches, sconn, sstmt, commands,
                   pending, raised, run, snap>>

\* Step 2: one turn of "for cmd in commands: try: stmt.execute(cmd) ..."
StatsExecute ==
    /\ pc = "s_loop"
    /\ Len(executed) < Len(commands)
    /\ LET cmd == commands[Len(executed) + 1] IN
       /\ executed' = Append(executed, cmd)
       /\ \/ /\ StatAccepted(catalog, stats, cmd)
             /\ stats' = stats \cup
                   {[tbl |-> cmd.tbl, col |-> cmd.col, kind |-> "Stats_col"]}
             /\ trace' = Append(trace, Event("stat_cmd", TRUE, 2, cmd))
             /\ log' = log \cup {"executed"}
             /\ UNCHANGED clean
          \/ /\ trace' = Append(trace, Event("stat_cmd", FALSE, 2, cmd))
             /\ log' = log \cup {"failed_cmd"}
             /\ clean' = FALSE
             /\ UNCHANGED stats
    /\ pc' = IF Len(executed') = Len(commands) THEN "s_finally" ELSE "s_loop"
    /\ UNCHANGED <<catalog, storage, inputs, conn, stmt, table_created,
                   existsResult, existsMatches, sconn, sstmt, commands,
                   pending, raised, run, snap>>

\* except Exception as e: print(...); raise
StatsHandler ==
    /\ pc = "s_handler"
    /\ log' = log \cup {"error_stats"}
    /\ pc' = "s_finally"
    /\ UNCHANGED <<env, inputs, locals, pending, raised, trace, run, clean,
                   snap>>

\* mutant: the except clause of create_statistics has no "raise"
StatsFinally_swallow ==
    /\ pc = "s_finally"
    /\ sstmt' = IF sstmt # None THEN "closed" ELSE sstmt
    /\ sconn' = IF sconn # None THEN "closed" ELSE sconn
    /\ trace' = trace \o Closes(sstmt, sconn, 2)
    /\ log' = log \cup {"stats_completed"}
    /\ pending' = NoError
    /\ pc' = "done"
    /\ UNCHANGED <<env, inputs, conn, stmt, table_created, existsResult,
                   existsMatches, commands, executed, raised, run, clean,
                   snap>>

\* finally: close stmt and conn; a pending exception then leaves
\* create_statistics and, uncaught in refresh, refresh itself
StatsFinally ==
    /\ pc = "s_finally"
    /\ sstmt' = IF sstmt # None THEN "closed" ELSE sstmt
    /\ sconn' = IF sconn # None THEN "closed" ELSE sconn
    /\ trace' = trace \o Closes(sstmt, sconn, 2)
    /\ log' = log \cup {"stats_completed"}
    /\ IF pending # NoError
       THEN raised' = pending /\ pending' = NoError /\ pc' = "failed"
       ELSE UNCHANGED <<raised, pending>> /\ pc' = "done"
    /\ UNCHANGED <<env, inputs, conn, stmt, table_created, existsResult,
                   existsMatches, commands, executed, run, clean, snap>>

\* ------------------------------------------------------------ specification
Next ==
    \/ Execute
    \/ Connect
    \/ CreateStatement
    \/ CheckExists
    \/ DropTable
    \/ SkipDrop
    \/ DeletePath
    \/ CreateTable
    \/ RefreshHandler
    \/ RefreshFinally
    \/ AfterRefresh
    \/ StatsConnect
    \/ StatsCreateStatement
    \/ StatsPlan
    \/ StatsExecute
    \/ StatsHandler
    \/ StatsFinally

Spec == Init /\ [][Next]_vars

\* ------------------------------------------------------- derived notions
RefreshPcs == {"connect", "createStatement", "check", "branch", "cleanup",
               "create", "handler", "finally"}
StatsPcs == {"s_connect", "s_createStatement", "s_plan", "s_loop",
             "s_handler", "s_finally"}
Terminal == pc \in {"done", "failed"}

\* positions of the calls of `op` in this run, returned or raised
Calls(op) == {k \in DOMAIN trace : trace[k].op = op}
CallsOn(op, on) == {k \in Calls(op) : trace[k].on = on}
Returned(op) == {k \in Calls(op) : trace[k].ok}
Raised(op) == {k \in Calls(op) : ~trace[k].ok}

\* the table config names, and whether it was in the catalog at the start
Target == Resolve(config.external_table)
PreExists == Target \in snap.env[1]

\* create_statistics_for_external_table has been called in this run
StatsInvoked == pc \in StatsPcs \/ \E k \in DOMAIN trace : trace[k].on = 2

\* ------------------------------------------------------------------ claims
CreateSucceeded == Returned("create") # {}
CreateFailed == Raised("create") # {}

\* C1: create_statistics_for_external_table is called if and only if the
\* CETAS statement succeeded; when it failed no CREATE STATISTICS command is
\* issued and the run ends with the error raised to the caller.
C1_StatsIffCreated ==
    /\ StatsInvoked => CreateSucceeded
    /\ (CreateSucceeded /\ pc \notin RefreshPcs /\ pc # "after") => StatsInvoked
    /\ CreateFailed =>
          /\ ~StatsInvoked
          /\ Calls("stat_cmd") = {} /\ executed = <<>>
          /\ Terminal => /\ pc = "failed"
                         /\ raised = Error("QueryError", "create")
                         /\ "error_refresh" \in log

C1_Witness ==
    /\ pc = "failed" /\ CreateFailed
    /\ Returned("rm") # {} /\ ~StatsInvoked

\* C2: when the table is in the catalog as the run starts, the run issues
\* exactly one drop, and storage cleanup is called only after that drop has
\* returned.
C2_OneDropBeforeCleanup ==
    PreExists =>
       /\ Cardinality(Calls("drop")) <= 1
       /\ (Returned("exists") # {} /\ pc # "branch") =>
             Cardinality(Calls("drop")) = 1
       /\ \A r \in Calls("rm") :
             \E d \in Returned("drop") : d < r /\ Calls("drop") = {d}

C2_Witness ==
    /\ PreExists /\ pc = "create"
    /\ Cardinality(Returned("drop")) = 1 /\ Returned("rm") # {}

\* C3 (as claimed): when the table is not in the catalog as the run starts,
\* the run issues no drop, and unless a call before them raises it calls
\* storage cleanup and the create statement.
C3_NoDropWhenAbsent ==
    ~PreExists =>
       /\ Calls("drop") = {}
       /\ (Terminal /\ Raised("connect") = {} /\ Raised("createStatement") = {}
              /\ Raised("exists") = {} /\ Raised("rm") = {}) =>
             (Calls("rm") # {} /\ Calls("create") # {})

\* the connection of refresh (1) or of create_statistics (2) was opened
Opened(on) == {k \in CallsOn("connect", on) : trace[k].ok}

\* C4: a connection opened by refresh_external_table or by
\* create_statistics_for_external_table is closed exactly once by the time
\* the function that opened it is left, whether it returns or raises.
C4_ConnectionsReleasedOnce ==
    /\ \A on \in {1, 2} : Cardinality(CallsOn("conn.close", on)) <= 1
    /\ (pc \notin RefreshPcs /\ pc # "idle") =>
          /\ conn # "open"
          /\ Cardinality(CallsOn("conn.close", 1)) = Cardinality(Opened(1))
    /\ Terminal =>
          /\ sconn # "open"
          /\ Cardinality(CallsOn("conn.close", 2)) = Cardinality(Opened(2))

C4_Witness ==
    /\ pc = "failed" /\ raised.at = "stats_query"
    /\ Cardinality(CallsOn("conn.close", 1)) = 1
    /\ Cardinality(CallsOn("conn.close", 2)) = 1

\* the exception class of a failing call
KindOf(op) == CASE op = "connect" -> "ConnectionError"
                [] op = "rm" -> "StorageError"
                [] OTHER -> "QueryError"

\* C5: when connect, the existence check, the drop, the storage cleanup or
\* the create raises, nothing but the close() calls follows in that run, the
\* call is not repeated, the connection is closed, and the caller of refresh
\* gets that same error.
C5_FailureAborts ==
    \A k \in DOMAIN trace :
       (trace[k].on = 1 /\ ~trace[k].ok) =>
          /\ \A j \in DOMAIN trace :
                j > k => /\ trace[j].op \in {"stmt.close", "conn.close"}
                         /\ trace[j].on = 1
          /\ Cardinality(CallsOn(trace[k].op, 1)) = 1
          /\ pc \in {"handler", "finally", "failed"}
          /\ pc \in {"handler", "finally"} =>
                pending = Error(KindOf(trace[k].op), trace[k].op)
          /\ pc = "failed" =>
                /\ raised = Error(KindOf(trace[k].op), trace[k].op)
                /\ conn # "open"
                /\ Cardinality(CallsOn("conn.close", 1)) = Cardinality(Opened(1))

C5_Witness ==
    /\ pc = "failed" /\ raised = Error("StorageError", "rm")
    /\ Calls("create") = {} /\ conn = "closed"

\* the commands of the CREATE STATISTICS calls of this run, in call order
StatCalls ==
    LET sel == SelectSeq(trace, LAMBDA e : e.op = "stat_cmd")
    IN  [k \in 1..Len(sel) |-> sel[k].arg]

\* C6: once planning has yielded commands, each of them is executed once, in
\* the planned order, whichever of them are rejected; a rejection raises
\* nothing and the run ends in success.
C6_AllCommandsRun ==
    /\ Len(executed) <= Len(commands)
    /\ executed = SubSeq(commands, 1, Len(executed))
    /\ StatCalls = executed
    /\ Raised("stat_cmd") # {} =>
          /\ pending = NoError
          /\ pc \in {"s_loop", "s_finally", "done"}
    /\ (commands # <<>> /\ Terminal) =>
          /\ pc = "done"
          /\ executed = commands
          /\ raised = NoError

C6_Witness ==
    /\ pc = "done" /\ Len(commands) >= 2
    /\ Raised("stat_cmd") # {} /\ Returned("stat_cmd") # {}
    /\ executed = commands

\* the statistics objects on column c of table t
StatsOn(t, c) == {s \in stats : s.tbl = t /\ s.col = c}

\* this run and the run before it both ended in success with no call raising
TwoCleanRuns == run >= 2 /\ pc = "done" /\ clean /\ snap.ok

\* C7: when two runs in succession with the same config both complete with
\* no step failing, the second leaves the catalog, the statistics and the
\* storage as the first left them: the table is there, its folder holds the
\* output of the last CETAS only, and each column has one statistics object.
C7_Idempotent ==
    TwoCleanRuns =>
       /\ env = snap.env
       /\ Target \in catalog
       /\ storage[config.materialized_table_output_path] = {Output}
       /\ \A c \in Columns : Cardinality(StatsOn(Target, c)) = 1

C7_Witness ==
    /\ TwoCleanRuns
    /\ Returned("drop") # {} /\ Returned("rm") # {}
    /\ Len(executed) = NumCols

\* C8: when planning yields no command, no CREATE STATISTICS is executed,
\* "No statistics to create" is printed, nothing is raised and the
\* connection of the statistics step is closed.
C8_NothingToDo ==
    (Returned("stats_query") # {} /\ commands = <<>>) =>
       /\ executed = <<>> /\ Calls("stat_cmd") = {}
       /\ "no_stats" \in log
       /\ "error_stats" \notin log /\ "creating_stats" \notin log
       /\ pending = NoError
       /\ pc \in {"s_finally", "done"}
       /\ pc = "done" =>
             /\ raised = NoError
             /\ sconn = "closed" /\ sstmt = "closed"
             /\ Cardinality(CallsOn("conn.close", 2)) = 1

C8_Witness ==
    /\ pc = "done" /\ Returned("stats_query") # {} /\ commands = <<>>
    /\ "no_stats" \in log /\ sconn = "closed"

\* C9 (as claimed): a run in which the create failed ends having printed
\* "Skipping statistics creation because the external table was not created".
C9_SkipNoticeOnCreateFailure ==
    (Terminal /\ CreateFailed) => "skip_stats" \in log

\* C10 (as claimed): table_exists returns true exactly when one external
\* table has the unqualified name.
C10_TrueIffExactlyOne ==
    Returned("exists") # {} => (existsResult <=> existsMatches = 1)

\* C10 (amended): table_exists returns true exactly when at least one
\* external table has the unqualified name; with no match it returns false.
C10_TrueIffSomeMatch ==
    Returned("exists") # {} =>
       /\ existsResult <=> existsMatches >= 1
       /\ (existsMatches = 0 /\ pc = "branch") =>
             (existsResult = FALSE /\ pending = NoError)

C10_Witness ==
    /\ pc = "branch" /\ existsMatches = 2 /\ existsResult = TRUE

\* one command for each column of table t, in column order
OnePerColumn(t) == [c \in 1..NumCols |-> Command(t, c)]

\* C11 (as claimed): planning yields one CREATE STATISTICS command for each
\* column of the configured table, in column order, and no other command,
\* however many statistics objects exist.
\* Stated for the runs whose CETAS created the configured table.
C11_OneCommandPerColumn ==
    (Returned("stats_query") # {} /\ Resolve(cetas.table) = Target) =>
       commands = OnePerColumn(Target)

\* C12: a run that reaches the create statement has called the storage
\* cleanup of the configured output path exactly once, after the drop or the
\* decision to skip it and before the create, whether or not the table
\* existed; a cleanup that found nothing to delete raises nothing and the
\* run goes on to the create.
C12_CleanupOnceBeforeCreate ==
    /\ (pc = "create" \/ Calls("create") # {}) =>
          /\ Cardinality(Calls("rm")) = 1
          /\ \A r \in Calls("rm") :
                /\ trace[r].ok
                /\ trace[r].arg = config.materialized_table_output_path
                /\ \A x \in Calls("exists") \cup Calls("drop") : x < r
                /\ \A c \in Calls("create") : r < c
          /\ Returned("drop") # {} \/ "skip_drop" \in log
    /\ (pc = "create" /\ "path_not_found" \in log) =>
          /\ pending = NoError
          /\ clean

C12_Witness ==
    /\ Returned("create") # {}
    /\ "path_not_found" \in log /\ "skip_drop" \in log
    /\ ~PreExists

\* C13: the connection of refresh is closed before create_statistics opens
\* its own, so the two are never open together and every call of the
\* statistics step comes after the first connection was closed.
C13_OneConnectionAtATime ==
    /\ ~(conn = "open" /\ sconn = "open")
    /\ (pc \in StatsPcs \/ sconn # None) => (conn = "closed" /\ stmt = "closed")
    /\ \A k \in DOMAIN trace :
          trace[k].on = 2 =>
             \E c \in CallsOn("conn.close", 1) : c < k
    /\ \A k \in Calls("stat_cmd") \cup Calls("stats_query") :
          /\ trace[k].on = 2
          /\ \E o \in Opened(2) : o < k

C13_Witness ==
    /\ pc = "s_loop" /\ sconn = "open" /\ conn = "closed"
    /\ Calls("stat_cmd") # {}

\* C14: what the steps before a failure did stays done.  When the table
\* existed, the drop returned and the cleanup or the create then raised, the
\* run ends failed with the table absent from the catalog; a folder emptied
\* before a failed create stays empty.
C14_NoRollback ==
    /\ (PreExists /\ Returned("drop") # {}
           /\ (Raised("rm") # {} \/ Raised("create") # {})) =>
          /\ Target \notin catalog
          /\ StatsOf(stats, Target) = {}
          /\ Terminal => pc = "failed"
    /\ (Returned("rm") # {} /\ Raised("create") # {}) =>
          storage[config.materialized_table_output_path] = {}

C14_Witness ==
    /\ pc = "failed" /\ PreExists
    /\ Returned("drop") # {} /\ Raised("create") # {}
    /\ Target \notin catalog

\* ------------------------------------------- a second session on the engine
\* Another session (an operator, or another refresh of the same table) drops
\* an external table after table_exists has returned True and before
\* drop_external_table is called.
ExternalDrop ==
    /\ pc = "branch"
    /\ existsResult = TRUE
    /\ \E t \in catalog :
          /\ catalog' = catalog \ {t}
          /\ stats' = stats \ StatsOf(stats, t)
    /\ UNCHANGED <<storage, inputs, locals, pc, pending, raised, log, trace,
                   run, clean, snap>>

NextRace == Next \/ ExternalDrop

SpecRace == Init /\ [][NextRace]_vars

\* the drop is about to be issued against a table that is not there
DropOfAbsent == pc = "branch" /\ existsResult = TRUE /\ Target \notin catalog

\* C15: with another session able to drop the table between the existence
\* check and the drop, the drop can be issued against an absent table; it is
\* then rejected, the error is not handled, and the run ends failed with its
\* connection closed, without cleaning the storage or creating the table.
C15_RaceDropFails ==
    /\ [][(DropOfAbsent /\ pc' # "branch") =>
             /\ pc' = "handler"
             /\ pending' = Error("QueryError", "drop")
             /\ env' = env]_vars
    /\ [](Raised("drop") # {} =>
             /\ Calls("rm") = {} /\ Calls("create") = {}
             /\ pc \in {"handler", "finally", "failed"}
             /\ pc = "failed" =>
                   /\ raised = Error("QueryError", "drop")
                   /\ conn = "closed"
                   /\ Cardinality(CallsOn("conn.close", 1)) = 1
                   /\ storage = snap.env[3]
                   /\ ~table_created)

\* the table was there at the start and when table_exists ran, and was gone
\* when the drop was issued
C15_Witness ==
    /\ pc = "failed" /\ raised = Error("QueryError", "drop")
    /\ PreExists /\ existsResult = TRUE
    /\ Target \notin catalog
    /\ conn = "closed"

\* ------------------------------------------------------------- termination
\* a step of a run: every external call returns or raises, and the
\* interpreter goes on to the next statement
RunStep ==
    \/ Connect \/ CreateStatement \/ CheckExists \/ DropTable \/ SkipDrop
    \/ DeletePath \/ CreateTable \/ RefreshHandler \/ RefreshFinally
    \/ AfterRefresh \/ StatsConnect \/ StatsCreateStatement \/ StatsPlan
    \/ StatsExecute \/ StatsHandler \/ StatsFinally

LiveSpec == Init /\ [][Next]_vars /\ WF_vars(RunStep)

\* the calls a run makes once per connection at most
SingleCalls == {"connect", "createStatement", "exists", "drop", "rm",
                "create", "stats_query", "stmt.close", "conn.close"}

\* C16: every run that has started reaches done (STATS_DONE) or failed
\* (FAILED), with an error raised exactly in the second case; no call is
\* repeated and the loop executes each planned command at most once.
C16_Terminates ==
    /\ [](pc # "idle" => <>Terminal)
    /\ [](/\ \A op \in SingleCalls : \A on \in {1, 2} :
                Cardinality(CallsOn(op, on)) <= 1
          /\ Cardinality(Calls("stat_cmd")) = Len(executed)
          /\ Len(executed) <= Len(commands)
          /\ pc = "done" => raised = NoError
          /\ pc = "failed" => raised # NoError)

C16_Witness ==
    /\ pc = "done" /\ run = MaxRuns
    /\ Len(executed) = Len(commands) /\ Len(commands) > NumCols
    /\ Raised("stat_cmd") # {}

\* the calls of create_statistics outside the per-command try
StatsSetupCalls == {"connect", "createStatement", "stats_query"}

\* C17: when opening the statistics connection or the column query raises
\* after a successful create, that error reaches the caller of refresh, the
\* statistics connection is closed if it was opened, and the run ends with
\* the table created and no CREATE STATISTICS command issued.
C17_StatsSetupFailurePropagates ==
    \A k \in DOMAIN trace :
       (trace[k].on = 2 /\ ~trace[k].ok /\ trace[k].op \in StatsSetupCalls) =>
          /\ CreateSucceeded
          /\ Resolve(cetas.table) \in catalog
          /\ Calls("stat_cmd") = {} /\ executed = <<>>
          /\ pc \in {"s_handler", "s_finally", "failed"}
          /\ pc # "failed" =>
                pending = Error(KindOf(trace[k].op), trace[k].op)
          /\ pc = "failed" =>
                /\ raised = Error(KindOf(trace[k].op), trace[k].op)
                /\ "error_stats" \in log
                /\ sconn # "open"
                /\ Cardinality(CallsOn("conn.close", 2)) =
                      Cardinality(Opened(2))

C17_Witness ==
    /\ pc = "failed" /\ raised = Error("QueryError", "stats_query")
    /\ sconn = "closed" /\ Resolve(cetas.table) \in catalog
    /\ Calls("stat_cmd") = {}

\* C18 (as claimed): the table the create statement creates is the table
\* config["external_table"] names, the one that was checked and dropped and
\* that statistics are planned for.
C18_CreatesConfiguredTable ==
    Returned("create") # {} =>
       /\ Resolve(cetas.table) = Target
       /\ Target \in catalog

\* C19 (as claimed): the folder the cleanup empties is the folder the create
\* statement writes to, so that folder is empty when the create is issued.
C19_CreateLocationIsEmpty ==
    pc = "create" => storage[cetas.location] = {}

====
